---- MODULE Spec2Model ----
(***************************************************************************)
(* Model of the landing-page editor bot.py: the document model LPData      *)
(* (load / save by regular-expression markers), the APPS literal codec     *)
(* (js_apps_to_python / python_apps_to_js), write_file, and the handlers   *)
(* of AppGUI that drive them.                                              *)
(*                                                                         *)
(* Text is a sequence of one-symbol strings.  A document is a sequence of  *)
(* segments; a segment is either plain text or one marker of the catalog   *)
(* together with the text it encloses:                                     *)
(*   Mk("h1_title", 1, <<"a">>)   is  <h1>a</h1>                           *)
(*   Mk("tagline", 2, <<"a">>)    is  <p  class="tagline">a</p>            *)
(*   Cpab(0, obj)                 is  var CPABUILDSETTINGS = obj;          *)
(*   Cpab(1, obj)                 is  var CPABUILDSETTINGS = obj ;         *)
(*   Apps(s, items)               is  const APPS = [items];                *)
(* A regular expression of the source becomes the predicate that says      *)
(* which segments it matches, and re.sub the map over all segments.        *)
(***************************************************************************)
EXTENDS Integers, Sequences, FiniteSets, TLC

\* ------------------------------------------------------------------ bounds
\* Segments in the document on disk at the start.
MaxDoc == 2
\* Entries typed into the form during one session; replacements of the file
\* by its author between two loads.
MaxEdits == 1
\* Records in a record list handed to the codec.
MaxApps == 2
\* Writes that fail during one session.
MaxFaults == 1
\* Records the list is let grow to by add_app.
MaxList == 3

\* ------------------------------------------------------------------ text
OctDigits == {"0", "7"}
Digits == OctDigits
Letters == {"a", "b", "true", "True"}
WordChars == Letters \cup Digits
Space == " "

\* str.strip(): leading and trailing whitespace removed
RECURSIVE LStrip(_)
LStrip(s) == IF s # <<>> /\ Head(s) = Space THEN LStrip(Tail(s)) ELSE s

RECURSIVE RStrip(_)
RStrip(s) ==
    IF s # <<>> /\ s[Len(s)] = Space THEN RStrip(SubSeq(s, 1, Len(s) - 1)) ELSE s

Strip(s) == LStrip(RStrip(s))

AllDigits(s) == \A i \in 1..Len(s) : s[i] \in Digits

RECURSIVE DropZeros(_)
DropZeros(s) == IF Len(s) > 1 /\ Head(s) = "0" THEN DropZeros(Tail(s)) ELSE s

\* int(x): ok with the decimal numeral of the integer, or not ok (ValueError).
\* int() itself ignores surrounding whitespace.
IntOf(s) ==
    LET t == Strip(s)
    IN  IF t # <<>> /\ AllDigits(t)
        THEN [ok |-> TRUE, v |-> DropZeros(t)]
        ELSE [ok |-> FALSE, v |-> <<>>]

\* ------------------------------------------------------------------ catalog
AlwaysFields == {"logo_src", "h1_title", "tagline", "meta_title"}
MetaFields == {"meta_desc", "meta_keywords", "og_image", "twitter_image"}
MarkerFields == AlwaysFields \cup MetaFields
SettingsFields == {"cpab_it", "cpab_key"}
FormFields == MarkerFields \cup SettingsFields

\* a value of the settings object: a number, a string, or the key is not there
Num(s) == [t |-> "num", s |-> s]
Str(s) == [t |-> "str", s |-> s]
Absent == [t |-> "none", s |-> <<>>]
\* the settings object: whether its keys are quoted, and its two values
Obj(quoted, it, key) == [quoted |-> quoted, it |-> it, key |-> key]

\* every segment has the same shape: v is the enclosed text of a marker, obj the
\* object of a settings assignment, items the objects of an APPS declaration
Seg(k, sp, v, obj, items) == [k |-> k, sp |-> sp, v |-> v, obj |-> obj, items |-> items]
Txt(v) == Seg("text", 0, v, Obj(FALSE, Absent, Absent), <<>>)
Mk(f, sp, v) == Seg(f, sp, v, Obj(FALSE, Absent, Absent), <<>>)
Cpab(sp, obj) == Seg("cpab", sp, <<>>, obj, <<>>)
Apps(sp, items) == Seg("apps", sp, <<>>, Obj(FALSE, Absent, Absent), items)

\* index of the first segment of doc satisfying P, 0 when there is none
FirstIdx(doc, P(_)) ==
    IF \E i \in 1..Len(doc) : P(doc[i])
    THEN CHOOSE i \in 1..Len(doc) : P(doc[i]) /\ \A j \in 1..(i - 1) : ~P(doc[j])
    ELSE 0

Min(S) == CHOOSE x \in S : \A y \in S : x <= y

\* ------------------------------------------------------------------ codec
AppKeys == {"name", "icon", "locker_id", "platforms", "trending", "featured"}
StrKeys == {"name", "icon", "locker_id"}

\* a dict of the record list: keys is the set of keys it has; the entry of a
\* key it does not have is never read
Dict(keys, name, icon, locker_id, platforms, trending, featured) ==
    [kind |-> "object", args |-> <<>>,
     keys |-> keys, name |-> name, icon |-> icon, locker_id |-> locker_id,
     platforms |-> platforms, trending |-> trending, featured |-> featured]

\* an element of the literal that is not an object:
\*   Scalar("number", <<7>>)     is  7
\*   Scalar("expr", <<7, 7>>)    is  7+7
\*   Scalar("junk", <<>>)        is  {name: }   (no Python or JSON5 syntax)
Scalar(kind, args) ==
    [kind |-> kind, args |-> args,
     keys |-> {}, name |-> <<>>, icon |-> <<>>, locker_id |-> <<>>,
     platforms |-> <<>>, trending |-> FALSE, featured |-> FALSE]

\* dict.get(key, default)
Get(d, key, default) == IF key \in d.keys THEN d[key] ELSE default

IsWordAt(s, i) == i \in 1..Len(s) /\ s[i] \in WordChars

\* re.sub(r'\btrue\b', 'True', s) on the text of one string of the literal
\* (false and null are rewritten by the same rule)
SubWords(s) ==
    [i \in 1..Len(s) |->
        IF s[i] = "true" /\ ~IsWordAt(s, i - 1) /\ ~IsWordAt(s, i + 1)
        THEN "True" ELSE s[i]]

\* first position of the run of word characters that ends at q
RunStart(s, q) ==
    CHOOSE st \in 1..q :
        /\ \A r \in st..q : s[r] \in WordChars
        /\ st = 1 \/ s[st - 1] \notin WordChars

\* r'(\b[a-zA-Z_][a-zA-Z0-9_]*\b)\s*:' matches somewhere in s
HasKeyColon(s) ==
    \E p \in 1..Len(s) : \E q \in 1..(p - 1) :
        /\ s[p] = ":"
        /\ \A r \in (q + 1)..(p - 1) : s[r] = Space
        /\ s[q] \in WordChars
        /\ s[RunStart(s, q)] \in Letters

\* the strings written in one object of the literal
ItemStrings(it) ==
    {it[key] : key \in StrKeys \cap it.keys}
        \cup (IF "platforms" \in it.keys
               THEN {it.platforms[i] : i \in 1..Len(it.platforms)} ELSE {})

\* one element of the literal as eval(s, {"__builtins__": {}}) gives it after
\* the rewrites of the fallback: an object with its strings rewritten, a
\* number as it is, an expression by its value
FallbackItem(it) ==
    CASE it.kind = "object" ->
            Dict(it.keys, SubWords(it.name), SubWords(it.icon), SubWords(it.locker_id),
                 [i \in 1..Len(it.platforms) |-> SubWords(it.platforms[i])],
                 it.trending, it.featured)
      [] it.kind = "expr" -> Scalar("number", <<it.args[1] + it.args[2]>>)
      [] OTHER -> it

\* json5.loads accepts the literal: objects and numbers only
Json5Parses(items) ==
    \A i \in 1..Len(items) : items[i].kind \in {"object", "number"}

\* js_apps_to_python: items is the text between the brackets, one element per
\* entry; json5 tells whether the json5 module can be imported.  With json5 a
\* literal it accepts is returned as written; any exception of the import or
\* of json5.loads is swallowed and the fallback runs.  There the keyword and
\* key rewrites run over the whole text, strings included: a quoted key
\* inside a string ends the string early and eval raises, as it does on text
\* that is no Python expression; whatever eval returns is returned.
js_apps_to_python(items, json5) ==
    IF json5 /\ Json5Parses(items) THEN [ok |-> TRUE, v |-> items]
    ELSE IF \E i \in 1..Len(items) :
                \/ items[i].kind = "junk"
                \/ \E s \in ItemStrings(items[i]) : HasKeyColon(s)
         THEN [ok |-> FALSE, v |-> <<>>]
         ELSE [ok |-> TRUE, v |-> [i \in 1..Len(items) |-> FallbackItem(items[i])]]

py_bool(v) == v

\* python_apps_to_js: every record is written with its six keys in the fixed
\* order, strings between double quotes without escaping
python_apps_to_js(apps) ==
    Apps(1, [i \in 1..Len(apps) |->
        Dict(AppKeys,
             Get(apps[i], "name", <<>>),
             Get(apps[i], "icon", <<>>),
             Get(apps[i], "locker_id", <<>>),
             Get(apps[i], "platforms", <<>>),
             py_bool(Get(apps[i], "trending", FALSE)),
             py_bool(Get(apps[i], "featured", FALSE)))])

\* ------------------------------------------------------------------ LPData
\* LPData.__init__
LPData ==
    [html |-> <<>>, logo_src |-> <<>>, h1_title |-> <<>>, tagline |-> <<>>,
     meta_title |-> <<>>, meta_desc |-> <<>>, meta_keywords |-> <<>>,
     og_image |-> <<>>, twitter_image |-> <<>>, cpab_it |-> <<>>,
     cpab_key |-> <<>>, apps |-> <<>>]

\* the extraction pattern of field f matches segment e:
\*   logo_src  <img\s+class="logo"\s+src="([^"]+)"    (a non-empty value)
\*   tagline   <p class="tagline">(.*?)</p>            (exactly one space)
\*   others    any spelling of the marker
LoadPattern(f, e) ==
    /\ e.k = f
    /\ f = "logo_src" => e.v # <<>>
    /\ f = "tagline" => e.sp = 1

\* regex_search: the first match, or none
regex_search(f, text) ==
    LET i == FirstIdx(text, LAMBDA e : LoadPattern(f, e))
    IN  IF i = 0 THEN [found |-> FALSE, group1 |-> <<>>]
        ELSE [found |-> TRUE, group1 |-> text[i].v]

\* m = regex_search(...); if m: self.f = m.group(1)
LoadField(lp, f) ==
    LET m == regex_search(f, lp.html)
    IN  IF m.found THEN [lp EXCEPT ![f] = m.group1] ELSE lp

RECURSIVE LoadFields(_, _)
LoadFields(lp, fs) ==
    IF fs = {} THEN lp
    ELSE LET f == CHOOSE x \in fs : TRUE
         IN  LoadFields(LoadField(lp, f), fs \ {f})

\* var\s+CPABUILDSETTINGS\s*=\s*({.*?}); : from the first settings assignment to
\* the first "};" after its opening brace, which need not be its own
CpabSearch(text) ==
    LET i == FirstIdx(text, LAMBDA e : e.k = "cpab")
        ends == {j \in i..Len(text) : i > 0 /\ text[j].k = "cpab" /\ text[j].sp = 0}
    IN  IF i = 0 \/ ends = {} THEN [found |-> FALSE, from |-> 0, to |-> 0]
        ELSE [found |-> TRUE, from |-> i, to |-> Min(ends)]

\* the settings assignments inside the captured text that satisfy P
CpabHits(text, m, P(_)) ==
    {j \in m.from..m.to : text[j].k = "cpab" /\ P(text[j].obj)}

\* lines 183-193: json.loads of the captured braces, else the two sub-patterns
\*   "?it"?\s*:\s*([0-9]+)       an unquoted number
\*   "?key"?\s*:\s*"([^"]+)"     a non-empty string
LoadCpab(lp) ==
    LET text == lp.html
        m == CpabSearch(text)
        one == text[m.from].obj
        its == CpabHits(text, m, LAMBDA o : o.it.t = "num")
        keys == CpabHits(text, m, LAMBDA o : o.key.t = "str" /\ o.key.s # <<>>)
        lp1 == IF its = {} THEN lp
               ELSE [lp EXCEPT !.cpab_it = text[Min(its)].obj.it.s]
    IN  IF ~m.found THEN lp
        ELSE IF m.from = m.to /\ one.quoted
             THEN [lp EXCEPT !.cpab_it = one.it.s, !.cpab_key = one.key.s]
             ELSE IF keys = {} THEN lp1
                  ELSE [lp1 EXCEPT !.cpab_key = text[Min(keys)].obj.key.s]

\* LPData.load on a file that exists with content text: the object afterwards
\* and whether load returned (ok) or raised
load(lp, text, json5) ==
    LET lp1 == LoadCpab(LoadFields([lp EXCEPT !.html = text], MarkerFields))
        i == FirstIdx(text, LAMBDA e : e.k = "apps")
        dec == js_apps_to_python(text[i].items, json5)
    IN  IF i = 0 THEN [ok |-> TRUE, lp |-> [lp1 EXCEPT !.apps = <<>>]]
        ELSE IF dec.ok THEN [ok |-> TRUE, lp |-> [lp1 EXCEPT !.apps = dec.v]]
             ELSE [ok |-> FALSE, lp |-> lp1]

\* chr(0o1de): the character an octal escape \1de of a template stands for
OctChr(d, e) ==
    IF d = "0" THEN (IF e = "0" THEN "@" ELSE "G")
    ELSE (IF e = "0" THEN "x" ELSE "DEL")

\* the replacement template rf'\1{value}\3' as re parses it: a digit after \1
\* is read as part of the escape.  Two octal digits make \1de an octal
\* character escape and group 1 is not emitted; one digit makes \1d a reference
\* to group 10 + d, which no pattern of save has (re.error).
Template(value) ==
    IF value # <<>> /\ Head(value) \in Digits
    THEN IF Len(value) >= 2 /\ Head(value) \in OctDigits /\ value[2] \in OctDigits
         THEN [ok |-> TRUE, group1 |-> FALSE,
               lit |-> <<OctChr(value[1], value[2])>> \o SubSeq(value, 3, Len(value))]
         ELSE [ok |-> FALSE, group1 |-> FALSE, lit |-> <<>>]
    ELSE [ok |-> TRUE, group1 |-> TRUE, lit |-> value]

\* the text of group 3 of the substitution pattern of field f
Closer(f) ==
    CASE f = "h1_title" -> "</h1>"
      [] f = "tagline" -> "</p>"
      [] f = "meta_title" -> "</title>"
      [] OTHER -> "QUOTE"

\* the substitution pattern of field f matches segment e:
\*   logo_src  (<img\s+class="logo"\s+src=")([^"]+)(")   (a non-empty value)
\*   tagline   (<p\s+class="tagline">)(.*?)(</p>)         (any whitespace)
\*   meta      no DOTALL: the value must not span a line break
SavePattern(f, e) ==
    /\ e.k = f
    /\ f = "logo_src" => e.v # <<>>
    /\ f \in MetaFields => \A i \in 1..Len(e.v) : e.v[i] # "NL"

\* A rewriter that inserts a fresh marker when the document has none for
\* the field (what the code does not do)
SubFieldInsert(html, f, value) ==
    LET t == Template(value)
        out == [i \in 1..Len(html) |->
                   IF SavePattern(f, html[i])
                   THEN IF t.group1 THEN Mk(f, html[i].sp, t.lit)
                        ELSE Txt(t.lit \o <<Closer(f)>>)
                   ELSE html[i]]
    IN  IF \E i \in 1..Len(html) : html[i].k = f
        THEN out
        ELSE Append(out, Mk(f, 1, t.lit))

\* re.sub(pattern of f, rf'\1{value}\3', html): every match is rewritten
SubField(html, f, value) ==
    LET t == Template(value)
    IN  [i \in 1..Len(html) |->
            IF SavePattern(f, html[i])
            THEN IF t.group1 THEN Mk(f, html[i].sp, t.lit)
                 ELSE Txt(t.lit \o <<Closer(f)>>)
            ELSE html[i]]

\* lines 206-218 in order; the four meta substitutions run only for a
\* non-empty value
FieldOrder ==
    <<"logo_src", "h1_title", "tagline", "meta_title",
      "meta_desc", "meta_keywords", "og_image", "twitter_image">>

Substituted(lp, f) == f \in AlwaysFields \/ lp[f] # <<>>

RECURSIVE SubFields(_, _, _)
SubFields(html, lp, n) ==
    IF n > Len(FieldOrder) THEN html
    ELSE LET f == FieldOrder[n]
         IN  SubFields(IF Substituted(lp, f) THEN SubField(html, f, lp[f]) ELSE html,
                       lp, n + 1)

\* some template of lines 206-218 does not compile: re.sub raises
TemplateError(lp) ==
    \E f \in MarkerFields : Substituted(lp, f) /\ ~Template(lp[f]).ok

\* int(self.cpab_it or 0)
CpabIt(lp) == IF lp.cpab_it = <<>> THEN [ok |-> TRUE, v |-> <<"0">>] ELSE IntOf(lp.cpab_it)

\* lines 220-221: every settings assignment gets the two-key literal
SubCpab(html, lp) ==
    [i \in 1..Len(html) |->
        IF html[i].k = "cpab"
        THEN Cpab(html[i].sp, Obj(TRUE, Num(CpabIt(lp).v), Str(lp.cpab_key)))
        ELSE html[i]]

\* lines 223-224: every APPS declaration gets the fresh encoding
SubApps(html, lp) ==
    [i \in 1..Len(html) |->
        IF html[i].k = "apps" THEN python_apps_to_js(lp.apps) ELSE html[i]]

\* app.get(...) in python_apps_to_js raises AttributeError on an element that
\* is not a dict
EncodeError(apps) == \E i \in 1..Len(apps) : apps[i].kind # "object"

\* lines 203-224 of LPData.save: the new text, or a raise before write_file
Rewrite(lp) ==
    IF TemplateError(lp) \/ ~CpabIt(lp).ok \/ EncodeError(lp.apps)
    THEN [ok |-> FALSE, html |-> lp.html]
    ELSE [ok |-> TRUE, html |-> SubApps(SubCpab(SubFields(lp.html, lp, 1), lp), lp)]

\* ------------------------------------------------------------------ files
Paths == {"index.html", "preview.html"}
NoFile == [exists |-> FALSE, text |-> <<>>]
File(text) == [exists |-> TRUE, text |-> text]

\* write_file(path, content): what the file can be afterwards.  open(path, "w")
\* either fails and leaves the file alone, or truncates it; f.write then puts
\* all of content or, when the disk fails (may_fail), only a part of it.
write_file(old, content, may_fail) ==
    {[ok |-> TRUE, file |-> File(content)]}
        \cup (IF may_fail
               THEN {[ok |-> FALSE, file |-> old]}
                        \cup {[ok |-> FALSE, file |-> File(SubSeq(content, 1, n))] :
                                 n \in 0..(Len(content) - 1)}
               ELSE {})

\* a save that opens the destination for writing before it builds the text
saveOpenFirst(l, fs, path, may_fail) ==
    LET r == Rewrite(l)
    IN  IF ~r.ok
        THEN {[ok |-> FALSE, wrote |-> FALSE, lp |-> l,
               files |-> [fs EXCEPT ![path] = File(<<>>)]]}
        ELSE {[ok |-> w.ok, wrote |-> TRUE,
               lp |-> IF w.ok THEN [l EXCEPT !.html = r.html] ELSE l,
               files |-> [fs EXCEPT ![path] = w.file]] :
                 w \in write_file(fs[path], r.html, may_fail)}

\* LPData.save(path): the outcomes, each the object and the files afterwards
save(l, fs, path, may_fail) ==
    LET r == Rewrite(l)
    IN  IF ~r.ok THEN {[ok |-> FALSE, wrote |-> FALSE, lp |-> l, files |-> fs]}
        ELSE {[ok |-> w.ok, wrote |-> TRUE,
               lp |-> IF w.ok THEN [l EXCEPT !.html = r.html] ELSE l,
               files |-> [fs EXCEPT ![path] = w.file]] :
                 w \in write_file(fs[path], r.html, may_fail)}

\* ------------------------------------------------------------------ inputs
\* the segments a document on disk is drawn from
CpabObjs ==
    {Obj(TRUE, Num(<<"7">>), Str(<<"a">>)),
     Obj(FALSE, Str(<<"7">>), Str(<<"a">>))}

AppItems ==
    {Dict({"name"}, <<"a">>, <<>>, <<>>, <<>>, FALSE, FALSE),
     Dict(AppKeys, <<"b">>, <<"a", ":", "b">>, <<"7">>, <<(<<"a">>)>>, TRUE, FALSE)}

Segments ==
    {Txt(<<"a">>)}
        \cup {Mk(f, 1, <<"a">>) : f \in MarkerFields}
        \cup {Mk("h1_title", 1, <<"b">>), Mk("tagline", 2, <<"a">>)}
        \cup {Cpab(0, o) : o \in CpabObjs}
        \cup {Cpab(1, Obj(TRUE, Num(<<"7">>), Str(<<"a">>)))}
        \cup {Apps(0, <<it>>) : it \in AppItems}

Docs == UNION {[1..n -> Segments] : n \in 0..MaxDoc}

\* what the user types into an entry of the form
TypedVals == {<<>>, <<"b", " ">>, <<"7">>, <<"7", "0">>}

\* ------------------------------------------------------------------ state
VARIABLES
    files,    \* path -> [exists, text]: index.html and preview.html on disk
    json5,    \* "untried" until js_apps_to_python tries to import json5,
              \* then "installed" or "missing"
    lp,       \* the LPData object
    form,     \* the StringVars of the form, by field
    pc,       \* "start" before main loads, "session" in mainloop, "dialog"
              \* while an AppDialog holds the grab, "saving" inside
              \* save_changes after the pull, "exit"
    edits,    \* entries typed, or replacements of the file, so far
    faults,   \* writes that have failed so far
    last,     \* the last handler: its name and whether it completed
    sel,      \* self.tree.selection(): the selected iids (list indices from 0)
    dialog,   \* the AppDialog on screen, or NoDialog
    anim      \* the thread of _animate_background: alive, and its counter i
              \* modulo the number of colors

gui == <<sel, dialog, anim>>
vars == <<files, json5, lp, form, pc, edits, faults, last, sel, dialog, anim>>

\* AppDialog: the record handed in (initial), the list index it edits
\* (idx, -1 when adding) and its tk variables
AppDialog(mode, idx, initial, name, icon, locker, platforms, trending, featured) ==
    [mode |-> mode, idx |-> idx, initial |-> initial,
     name_var |-> name, icon_var |-> icon, locker_var |-> locker,
     platforms_var |-> platforms, trending_var |-> trending,
     featured_var |-> featured]

NoDialog ==
    AppDialog("none", -1, Dict({}, <<>>, <<>>, <<>>, <<>>, FALSE, FALSE),
              <<>>, <<>>, <<>>, <<>>, FALSE, FALSE)

\* colors of _animate_background
Colors == <<"bg", "#1e1e3a", "#222242">>

NoThread == [alive |-> FALSE, i |-> 0]

Done(op, ok) == [op |-> op, ok |-> ok]

\* the StringVars as make_widgets creates them (lines 472-531)
FormOf(l) == [f \in FormFields |-> l[f]]

Init ==
    /\ files \in {[p \in Paths |-> IF p = "index.html" THEN d ELSE NoFile] :
                     d \in {NoFile} \cup {File(t) : t \in Docs}}
    /\ json5 = "untried"
    /\ lp = LPData
    /\ form = FormOf(LPData)
    /\ pc = "start"
    /\ edits = 0
    /\ faults = 0
    /\ last = Done("none", TRUE)
    /\ sel = {}
    /\ dialog = NoDialog
    /\ anim = NoThread

\* what the import of json5 in js_apps_to_python can give while loading file:
\* the import is tried only when an APPS declaration is found
Importable(file, known) ==
    IF file.exists /\ \E i \in 1..Len(file.text) : file.text[i].k = "apps"
    THEN (IF known = "untried" THEN {"installed", "missing"} ELSE {known})
    ELSE {known}

\* main (lines 859-871): load index.html into a new LPData; on success build
\* the window, which fills the tree (refresh_tree raises on an element that
\* is not a dict) and starts the animation thread, and enter mainloop; else
\* show the error and return
Main ==
    /\ pc = "start"
    /\ \E j \in Importable(files["index.html"], json5) :
          LET r == IF files["index.html"].exists
                   THEN load(lp, files["index.html"].text, j = "installed")
                   ELSE [ok |-> FALSE, lp |-> lp]
              up == r.ok /\ ~EncodeError(r.lp.apps)
          IN  /\ lp' = r.lp
              /\ json5' = j
              /\ pc' = IF up THEN "session" ELSE "exit"
              /\ form' = IF r.ok THEN FormOf(r.lp) ELSE form
              /\ anim' = IF up THEN [alive |-> TRUE, i |-> 0] ELSE anim
              /\ last' = Done("load", r.ok)
    /\ UNCHANGED <<files, edits, faults, sel, dialog>>

\* the user types v into the entry of field f
TypeField(f, v) ==
    /\ pc = "session"
    /\ edits < MaxEdits
    /\ form' = [form EXCEPT ![f] = v]
    /\ edits' = edits + 1
    /\ UNCHANGED <<files, json5, lp, pc, faults, last>>
    /\ UNCHANGED gui

\* lines 696-707 of save_changes: the form is pulled into the object
Pulled(l, fm) ==
    [x \in DOMAIN l |->
        IF x \in FormFields
        THEN IF x = "cpab_it" /\ Strip(fm[x]) = <<>> THEN <<"0">> ELSE Strip(fm[x])
        ELSE l[x]]

\* AppGUI.save_changes: pull, save to index.html, report success or the error
save_changes ==
    /\ pc = "session"
    /\ \E r \in save(Pulled(lp, form), files, "index.html", faults < MaxFaults) :
          /\ lp' = r.lp
          /\ files' = r.files
          /\ faults' = IF r.wrote /\ ~r.ok THEN faults + 1 ELSE faults
          /\ last' = Done("save_changes", r.ok)
    /\ UNCHANGED <<json5, form, pc, edits>>
    /\ UNCHANGED gui

\* AppGUI.preview_changes: save the object as it is to preview.html
preview_changes ==
    /\ pc = "session"
    /\ \E r \in save(lp, files, "preview.html", faults < MaxFaults) :
          /\ lp' = r.lp
          /\ files' = r.files
          /\ faults' = IF r.wrote /\ ~r.ok THEN faults + 1 ELSE faults
          /\ last' = Done("preview_changes", r.ok)
    /\ UNCHANGED <<json5, form, pc, edits>>
    /\ UNCHANGED gui

Next ==
    \/ Main
    \/ \E f \in FormFields, v \in TypedVals : TypeField(f, v)
    \/ save_changes
    \/ preview_changes

Spec == Init /\ [][Next]_vars

\* ------------------------------------------------------------------ LPData
\* as a class: a client calls load and save on one object.

\* LPData.load("index.html") on the object as it is
Load ==
    /\ \E j \in Importable(files["index.html"], json5) :
          LET r == IF files["index.html"].exists
                   THEN load(lp, files["index.html"].text, j = "installed")
                   ELSE [ok |-> FALSE, lp |-> lp]
          IN  /\ lp' = r.lp
              /\ json5' = j
              /\ last' = Done("load", r.ok)
    /\ UNCHANGED <<files, form, pc, edits, faults>>
    /\ UNCHANGED gui

\* LPData.save("index.html") of the object as it is
Save ==
    /\ \E r \in save(lp, files, "index.html", faults < MaxFaults) :
          /\ lp' = r.lp
          /\ files' = r.files
          /\ faults' = IF r.wrote /\ ~r.ok THEN faults + 1 ELSE faults
          /\ last' = Done("save", r.ok)
    /\ UNCHANGED <<json5, form, pc, edits>>
    /\ UNCHANGED gui

\* the author of the page puts another document in place of index.html
ReplaceFile(d) ==
    /\ edits < MaxEdits
    /\ files["index.html"] # File(d)
    /\ files' = [files EXCEPT !["index.html"] = File(d)]
    /\ edits' = edits + 1
    /\ last' = Done("replace", TRUE)
    /\ UNCHANGED <<json5, lp, form, pc, faults>>
    /\ UNCHANGED gui

NextReload ==
    \/ Load
    \/ \E d \in Docs : ReplaceFile(d)

\* one LPData object loaded more than once
SpecReload == Init /\ [][NextReload]_vars

\* the record lists handed to the codec: strings without double quote,
\* backslash or line break
Records ==
    {Dict(AppKeys, name, icon, <<"7">>, platforms, trending, featured) :
        name \in {<<"a">>, <<"true">>},
        icon \in {<<>>, <<"a", ":", "b">>},
        platforms \in {<<>>, <<(<<"a">>)>>},
        trending \in BOOLEAN, featured \in BOOLEAN}

RecordLists == UNION {[1..n -> Records] : n \in 0..MaxApps}

\* an object holding a record list, and a page with an empty APPS declaration
InitCodec ==
    /\ files = [p \in Paths |->
                  IF p = "index.html" THEN File(<<Apps(0, <<>>)>>) ELSE NoFile]
    /\ json5 \in {"installed", "missing"}
    /\ lp \in {[LPData EXCEPT !.html = <<Apps(0, <<>>)>>, !.apps = a] : a \in RecordLists}
    /\ form = FormOf(LPData)
    /\ pc = "start"
    /\ edits = 0
    /\ faults = 0
    /\ last = Done("none", TRUE)
    /\ sel = {}
    /\ dialog = NoDialog
    /\ anim = NoThread

NextCodec ==
    \/ Save
    \/ Load

\* encode (save) and decode (load) of a record list
SpecCodec == InitCodec /\ [][NextCodec]_vars

\* ------------------------------------------------------------------ record list
\* The handlers of the Apps tab and the AppDialog they open.

\* str.lower() on one symbol
LowerSym(c) ==
    CASE c = "A" -> "a"
      [] c = "True" -> "true"
      [] OTHER -> c

Lower(s) == [i \in 1..Len(s) |-> LowerSym(s[i])]

\* s.split(","): the pieces between the commas
RECURSIVE Split(_)
Split(s) ==
    IF \E i \in 1..Len(s) : s[i] = ","
    THEN LET i == Min({j \in 1..Len(s) : s[j] = ","})
         IN  <<SubSeq(s, 1, i - 1)>> \o Split(SubSeq(s, i + 1, Len(s)))
    ELSE <<s>>

\* ",".join(lst)
RECURSIVE Join(_)
Join(lst) ==
    IF lst = <<>> THEN <<>>
    ELSE IF Len(lst) = 1 THEN lst[1]
    ELSE lst[1] \o <<",">> \o Join(Tail(lst))

\* the elements of a sequence of texts that are not empty, in order
RECURSIVE NonEmpty(_)
NonEmpty(lst) ==
    IF lst = <<>> THEN <<>>
    ELSE IF Head(lst) = <<>> THEN NonEmpty(Tail(lst))
    ELSE <<Head(lst)>> \o NonEmpty(Tail(lst))

\* line 844: [p.strip().lower() for p in text.split(",") if p.strip()]
Plats(text) ==
    LET parts == Split(text)
    IN  NonEmpty([i \in 1..Len(parts) |-> Lower(Strip(parts[i]))])

\* AppDialog.__init__ (lines 752-778): the variables start from initial
OpenDialog(mode, idx, initial) ==
    AppDialog(mode, idx, initial,
              Get(initial, "name", <<>>),
              Get(initial, "icon", <<>>),
              Get(initial, "locker_id", <<>>),
              Join(Get(initial, "platforms", <<(<<"android">>), (<<"ios">>)>>)),
              Get(initial, "trending", FALSE),
              Get(initial, "featured", FALSE))

\* a check of the name that does not strip it first
RejectedUnstripped(d) == d.name_var = <<>>

\* lines 839-842 of AppDialog.ok: the name is required
Rejected(d) == Strip(d.name_var) = <<>>

\* lines 846-853 of AppDialog.ok: the result
Result(d) ==
    Dict(AppKeys, Strip(d.name_var), Strip(d.icon_var), Strip(d.locker_var),
         Plats(d.platforms_var), d.trending_var, d.featured_var)

\* a removal that always takes the last element
PopLast(apps, idx) == SubSeq(apps, 1, Len(apps) - 1)

\* list.pop(idx)
Pop(apps, idx) == SubSeq(apps, 1, idx) \o SubSeq(apps, idx + 2, Len(apps))

\* apps[idx] = data
SetItem(apps, idx, data) == [apps EXCEPT ![idx + 1] = data]

\* apps[a], apps[b] = apps[b], apps[a]
SwapItems(apps, a, b) == [apps EXCEPT ![a + 1] = apps[b + 1], ![b + 1] = apps[a + 1]]

\* what the user types into an entry of the dialog
DialogVals ==
    [name_var |-> {<<" ">>, <<"b", " ">>},
     platforms_var |-> {<<"A", ",", " ">>}]

\* the user picks rows of the tree
Select(S) ==
    /\ pc = "session"
    /\ S # sel
    /\ sel' = S
    /\ last' = Done("select", TRUE)
    /\ UNCHANGED <<files, json5, lp, form, pc, edits, faults, dialog, anim>>

\* add_app up to prompt_app_data: the dialog opens and takes the grab
add_app ==
    /\ pc = "session"
    /\ Len(lp.apps) < MaxList
    /\ dialog' = OpenDialog("add", -1, NoDialog.initial)
    /\ pc' = "dialog"
    /\ last' = Done("prompt_app_data", TRUE)
    /\ UNCHANGED <<files, json5, lp, form, edits, faults, sel, anim>>

\* edit_selected_app up to prompt_app_data
edit_selected_app ==
    /\ pc = "session"
    /\ IF sel = {}
       THEN /\ last' = Done("edit_selected_app", FALSE)
            /\ UNCHANGED <<dialog, pc>>
       ELSE /\ dialog' = OpenDialog("edit", Min(sel), lp.apps[Min(sel) + 1])
            /\ pc' = "dialog"
            /\ last' = Done("prompt_app_data", TRUE)
    /\ UNCHANGED <<files, json5, lp, form, edits, faults, sel, anim>>

\* the user types v into entry f of the dialog
TypeDialog(f, v) ==
    /\ pc = "dialog"
    /\ dialog[f] # v
    /\ dialog' = [dialog EXCEPT ![f] = v]
    /\ last' = Done("type", TRUE)
    /\ UNCHANGED <<files, json5, lp, form, pc, edits, faults, sel, anim>>

\* AppDialog.ok, and on a result the rest of the handler that waits in
\* prompt_app_data: add_app appends, edit_selected_app assigns, both
\* refresh the tree (which drops the selection)
ok ==
    /\ pc = "dialog"
    /\ IF Rejected(dialog)
       THEN /\ last' = Done("ok", FALSE)
            /\ UNCHANGED <<lp, pc, dialog, sel>>
       ELSE /\ lp' = [lp EXCEPT !.apps =
                        IF dialog.mode = "add" THEN Append(@, Result(dialog))
                        ELSE SetItem(@, dialog.idx, Result(dialog))]
            /\ pc' = "session"
            /\ dialog' = NoDialog
            /\ sel' = {}
            /\ last' = Done(IF dialog.mode = "add" THEN "add_app"
                            ELSE "edit_selected_app", TRUE)
    /\ UNCHANGED <<files, json5, form, edits, faults, anim>>

\* Cancel (destroy): prompt_app_data returns None and the handler returns
cancel ==
    /\ pc = "dialog"
    /\ pc' = "session"
    /\ dialog' = NoDialog
    /\ last' = Done("cancel", TRUE)
    /\ UNCHANGED <<files, json5, lp, form, edits, faults, sel, anim>>

\* delete_selected_app: yes is the answer to askyesno
delete_selected_app(yes) ==
    /\ pc = "session"
    /\ IF sel # {} /\ yes
       THEN /\ lp' = [lp EXCEPT !.apps = Pop(@, Min(sel))]
            /\ sel' = {}
            /\ last' = Done("delete_selected_app", TRUE)
       ELSE /\ last' = Done("delete_selected_app", FALSE)
            /\ UNCHANGED <<lp, sel>>
    /\ UNCHANGED <<files, json5, form, pc, edits, faults, dialog, anim>>

move_up ==
    /\ pc = "session"
    /\ IF sel # {} /\ ~(Min(sel) <= 0)
       THEN /\ lp' = [lp EXCEPT !.apps = SwapItems(@, Min(sel) - 1, Min(sel))]
            /\ sel' = {Min(sel) - 1}
            /\ last' = Done("move_up", TRUE)
       ELSE /\ last' = Done("move_up", FALSE)
            /\ UNCHANGED <<lp, sel>>
    /\ UNCHANGED <<files, json5, form, pc, edits, faults, dialog, anim>>

move_down ==
    /\ pc = "session"
    /\ IF sel # {} /\ ~(Min(sel) >= Len(lp.apps) - 1)
       THEN /\ lp' = [lp EXCEPT !.apps = SwapItems(@, Min(sel) + 1, Min(sel))]
            /\ sel' = {Min(sel) + 1}
            /\ last' = Done("move_down", TRUE)
       ELSE /\ last' = Done("move_down", FALSE)
            /\ UNCHANGED <<lp, sel>>
    /\ UNCHANGED <<files, json5, form, pc, edits, faults, dialog, anim>>

\* the pages the list handlers start from: an APPS declaration with some
\* records, written with their name only
ListDocs ==
    {<<Apps(0, items)>> :
        items \in UNION {[1..n -> {it \in AppItems : it.keys = {"name"}}] :
                            n \in 0..MaxApps}}

\* the selections the user makes: no row, one row or two rows
Selections(n) == {S \in SUBSET (0..(n - 1)) : Cardinality(S) <= 2}

InitApps ==
    /\ files \in {[p \in Paths |-> IF p = "index.html" THEN File(d) ELSE NoFile] :
                     d \in ListDocs}
    /\ json5 = "untried"
    /\ lp = LPData
    /\ form = FormOf(LPData)
    /\ pc = "start"
    /\ edits = 0
    /\ faults = 0
    /\ last = Done("none", TRUE)
    /\ sel = {}
    /\ dialog = NoDialog
    /\ anim = NoThread

NextApps ==
    \/ Main
    \/ \E S \in Selections(Len(lp.apps)) : Select(S)
    \/ add_app
    \/ edit_selected_app
    \/ \E f \in DOMAIN DialogVals : \E v \in DialogVals[f] : TypeDialog(f, v)
    \/ ok
    \/ cancel
    \/ \E yes \in BOOLEAN : delete_selected_app(yes)
    \/ move_up
    \/ move_down

\* a session on the Apps tab
SpecApps == InitApps /\ [][NextApps]_vars

\* ------------------------------------------------------------------ decoder
\* LPData.load on pages whose APPS literal holds anything a page can hold.

\* the elements of a literal: objects, a number, an operator expression and
\* text that is no expression at all
LiteralItems ==
    AppItems \cup {Scalar("number", <<7>>), Scalar("expr", <<7, 7>>),
                   Scalar("junk", <<>>)}

LiteralDocs ==
    {<<Apps(sp, items)>> :
        sp \in {0, 1},
        items \in UNION {[1..n -> LiteralItems] : n \in 0..MaxApps}}

InitDecode ==
    /\ files \in {[p \in Paths |-> IF p = "index.html" THEN File(d) ELSE NoFile] :
                     d \in LiteralDocs}
    /\ json5 = "untried"
    /\ lp = LPData
    /\ form = FormOf(LPData)
    /\ pc = "start"
    /\ edits = 0
    /\ faults = 0
    /\ last = Done("none", TRUE)
    /\ sel = {}
    /\ dialog = NoDialog
    /\ anim = NoThread

NextDecode ==
    \/ Load
    \/ Save

\* an LPData object loading and saving such a page
SpecDecode == InitDecode /\ [][NextDecode]_vars

\* ------------------------------------------------------------------ threads
\* The session with the animation thread that AppGUI.__init__ starts.  The
\* interpreter switches threads between any two statements, so save_changes
\* is taken in its two parts: the pull of the form (lines 696-707) and the
\* call of lp.save (lines 709-717).

\* lines 696-707 of save_changes
pull_vars ==
    /\ pc = "session"
    /\ lp' = Pulled(lp, form)
    /\ pc' = "saving"
    /\ last' = Done("pull_vars", TRUE)
    /\ UNCHANGED <<files, json5, form, edits, faults, sel, dialog, anim>>

\* lines 709-717 of save_changes
lp_save ==
    /\ pc = "saving"
    /\ \E r \in save(lp, files, "index.html", faults < MaxFaults) :
          /\ lp' = r.lp
          /\ files' = r.files
          /\ faults' = IF r.wrote /\ ~r.ok THEN faults + 1 ELSE faults
          /\ last' = Done("save_changes", r.ok)
    /\ pc' = "session"
    /\ UNCHANGED <<json5, form, edits, sel, dialog, anim>>

\* one turn of the loop of _animate_background in its own thread: it reads
\* animation_active, calls self.configure(background=colors[i % len(colors)])
\* and adds 1 to i.  The call into Tk from a thread that is not the main one
\* either goes through or raises, which ends the thread.
_animate_background(raises) ==
    /\ anim.alive
    /\ anim' = IF raises THEN [anim EXCEPT !.alive = FALSE]
               ELSE [anim EXCEPT !.i = (@ + 1) % Len(Colors)]
    /\ UNCHANGED <<files, json5, lp, form, pc, edits, faults, last, sel, dialog>>

\* the window is closed: mainloop returns and main clears animation_active
\* (lines 867-871), on which the loop of the thread ends
close ==
    /\ pc = "session"
    /\ pc' = "exit"
    /\ anim' = [anim EXCEPT !.alive = FALSE]
    /\ last' = Done("close", TRUE)
    /\ UNCHANGED <<files, json5, lp, form, edits, faults, sel, dialog>>

InitThreads ==
    /\ files \in {[p \in Paths |-> IF p = "index.html" THEN File(d) ELSE NoFile] :
                     d \in {t \in Docs : Len(t) <= 1}}
    /\ json5 = "untried"
    /\ lp = LPData
    /\ form = FormOf(LPData)
    /\ pc = "start"
    /\ edits = 0
    /\ faults = 0
    /\ last = Done("none", TRUE)
    /\ sel = {}
    /\ dialog = NoDialog
    /\ anim = NoThread

NextThreads ==
    \/ Main
    \/ \E f \in FormFields, v \in TypedVals : TypeField(f, v)
    \/ pull_vars
    \/ lp_save
    \/ \E raises \in BOOLEAN : _animate_background(raises)
    \/ close

SpecThreads == InitThreads /\ [][NextThreads]_vars

\* ------------------------------------------------------------------ properties
SaveOps == {"save", "save_changes", "preview_changes"}
PathOf(op) == IF op = "preview_changes" THEN "preview.html" ELSE "index.html"
Kinds == MarkerFields \cup {"cpab", "apps"}

\* the document has a marker of kind k, in whatever spelling
HasMarker(text, k) == \E i \in 1..Len(text) : text[i].k = k

\* the document with the settings objects and the APPS arrays left out
Outside(text) ==
    [i \in 1..Len(text) |->
        IF text[i].k = "cpab" THEN Cpab(text[i].sp, Obj(FALSE, Absent, Absent))
        ELSE IF text[i].k = "apps" THEN Apps(0, <<>>)
        ELSE text[i]]

\* a record with the defaults of the data model for the keys it lacks
Defaulted(d) ==
    Dict(AppKeys,
         IF "name" \in d.keys THEN d.name ELSE <<>>,
         IF "icon" \in d.keys THEN d.icon ELSE <<>>,
         IF "locker_id" \in d.keys THEN d.locker_id ELSE <<>>,
         IF "platforms" \in d.keys THEN d.platforms ELSE <<>>,
         IF "trending" \in d.keys THEN d.trending ELSE FALSE,
         IF "featured" \in d.keys THEN d.featured ELSE FALSE)

\* the settings and the records written in new have the values of those in old
SameValues(old, new) ==
    \A i \in 1..Len(old) :
        /\ old[i].k = "cpab" =>
              /\ new[i].obj.it.s = old[i].obj.it.s
              /\ new[i].obj.key.s = old[i].obj.key.s
        /\ old[i].k = "apps" =>
              new[i].items = [n \in 1..Len(old[i].items) |-> Defaulted(old[i].items[n])]

\* every field whose marker is not in the loaded document holds its default
DefaultsWhereAbsent ==
    /\ \A f \in MarkerFields : ~HasMarker(lp.html, f) => lp[f] = <<>>
    /\ ~HasMarker(lp.html, "cpab") => lp.cpab_it = <<>> /\ lp.cpab_key = <<>>
    /\ ~HasMarker(lp.html, "apps") => lp.apps = <<>>

\* a successful save has put the current value of every field it substitutes
\* into each marker of the field, spelling of the marker kept
ValuesPlaced(fields) ==
    \A f \in fields : \A i \in 1..Len(lp.html) :
        SavePattern(f, lp.html[i]) => lp'.html[i] = Mk(f, lp.html[i].sp, lp'[f])

\* C1: load followed by save with nothing changed (preview_changes right after
\* main saves the object as loaded) writes a document that equals the loaded
\* one outside the settings object and the APPS array, with the same settings
\* values and the same records.
C1_RoundTrip ==
    [][(last.op = "load" /\ last.ok /\ last'.op = "preview_changes" /\ last'.ok)
        => /\ Outside(files'["preview.html"].text) = Outside(lp.html)
           /\ SameValues(lp.html, files'["preview.html"].text)]_vars

\* C2: decoding the array that python_apps_to_js wrote for a record list gives
\* that record list back, with json5 and with the fallback.
C2_InverseLaw ==
    [][(last.op = "save" /\ last.ok /\ last'.op = "load")
        => (last'.ok /\ lp'.apps = lp.apps)]_vars

\* C3: the settings object {it: "7", key: "a"} is written back by save as
\* {"it": 7, "key": "a"}.
C3_SettingsNormalization ==
    [][(last.op = "load" /\ last.ok /\ form = FormOf(lp)
            /\ lp.html = <<Cpab(0, Obj(FALSE, Str(<<"7">>), Str(<<"a">>)))>>
            /\ last'.op = "save_changes" /\ last'.ok)
        => files'["index.html"].text =
               <<Cpab(0, Obj(TRUE, Num(<<"7">>), Str(<<"a">>)))>>]_vars

\* C4: a save whose it value is empty or not a number completes and writes it
\* as 0 (no template fails and the disk does not fail).
C4_SaveDefaultsIt ==
    [][(last'.op \in SaveOps /\ ~IntOf(lp'.cpab_it).ok /\ ~TemplateError(lp')
            /\ faults' = faults)
        => /\ last'.ok
           /\ \A i \in 1..Len(lp'.html) :
                 lp'.html[i].k = "cpab" => lp'.html[i].obj.it = Num(<<"0">>)]_vars

\* C5: a save that fails leaves the destination file and the document in
\* memory as they were.
C5_WriteAtomicity ==
    [][(last'.op \in SaveOps /\ ~last'.ok)
        => (files' = files /\ lp'.html = lp.html)]_vars

\* C6: after every load, also a second one on the same object, the fields
\* whose marker is not in the document just loaded hold their defaults.
C6_FreshState == (last.op = "load" /\ last.ok) => DefaultsWhereAbsent

\* C7: a field whose marker is not in the document is loaded as its default,
\* and a save, whatever the value of the field, writes a document without a
\* marker of that field and with the segments it had.
C7_MarkerAbsence ==
    /\ []((last.op = "load" /\ last.ok) => DefaultsWhereAbsent)
    /\ [][(last'.op \in SaveOps /\ last'.ok)
            => \A k \in Kinds :
                 ~HasMarker(lp.html, k)
                     => /\ ~HasMarker(files'[PathOf(last'.op)].text, k)
                        /\ Len(files'[PathOf(last'.op)].text) = Len(lp.html)]_vars

\* a page of plain text saved with a value typed for twitter_image
C7_Witness ==
    /\ last.op = "save_changes" /\ last.ok
    /\ lp.twitter_image # <<>>
    /\ lp.html = <<Txt(<<"a">>)>>
    /\ files["index.html"] = File(<<Txt(<<"a">>)>>)

\* C8: save puts the current value of every field into its marker, also the
\* empty value (values that begin with a digit are the matter of C9).
C8_ValueSubstitution ==
    [][(last'.op = "save_changes" /\ last'.ok
            /\ \A f \in MarkerFields : Template(lp'[f]).group1)
        => ValuesPlaced(MarkerFields)]_vars

\* C9: with values of letters, digits and spaces save does not raise, and
\* each marker it substitutes then holds exactly the value of its field.
C9_SupportedDomain ==
    [][(last'.op = "save_changes" /\ CpabIt(lp').ok /\ faults' = faults)
        => /\ last'.ok
           /\ ValuesPlaced({f \in MarkerFields : Substituted(lp', f)})]_vars

\* C10: load takes the value of the first occurrence of a marker, and save
\* leaves every later occurrence as it was.
C10_FirstMatchOnly ==
    /\ []((last.op = "load" /\ last.ok)
            => \A f \in MarkerFields :
                 LET i == FirstIdx(lp.html, LAMBDA e : LoadPattern(f, e))
                 IN  i > 0 => lp[f] = lp.html[i].v)
    /\ [][(last'.op \in SaveOps /\ last'.ok)
            => \A f \in MarkerFields : \A i \in 1..Len(lp.html) :
                 (SavePattern(f, lp.html[i])
                    /\ i # FirstIdx(lp.html, LAMBDA e : SavePattern(f, e)))
                     => lp'.html[i] = lp.html[i]]_vars

\* the operations of an ordered sequence, positions counted from 0
RefRemove(q, i) ==
    [k \in 1..(Len(q) - 1) |-> IF k <= i THEN q[k] ELSE q[k + 1]]

RefSwap(q, i, j) ==
    [k \in 1..Len(q) |->
        IF k = i + 1 THEN q[j + 1] ELSE IF k = j + 1 THEN q[i + 1] ELSE q[k]]

RefReplaced(q, r, i) ==
    /\ Len(r) = Len(q)
    /\ \A k \in 1..Len(q) : k # i + 1 => r[k] = q[k]

RefAppended(q, r) ==
    /\ Len(r) = Len(q) + 1
    /\ SubSeq(r, 1, Len(q)) = q

\* C11: every handler of the Apps tab changes the record list as the same
\* operation changes an ordered sequence: add appends, edit replaces at the
\* selected index, a confirmed delete removes at it, move_up and move_down
\* swap with the neighbour, and every other step (move_up on index 0,
\* move_down on the last index, a declined delete, a cancelled dialog)
\* leaves the list as it is.
C11_OrderPreservation ==
    [][IF last'.op = "load" THEN TRUE
       ELSE IF last'.op = "add_app" THEN RefAppended(lp.apps, lp'.apps)
       ELSE IF last'.op = "edit_selected_app" /\ last'.ok
            THEN RefReplaced(lp.apps, lp'.apps, dialog.idx)
       ELSE IF last'.op = "delete_selected_app" /\ last'.ok
            THEN lp'.apps = RefRemove(lp.apps, Min(sel))
       ELSE IF last'.op = "move_up" /\ last'.ok
            THEN lp'.apps = RefSwap(lp.apps, Min(sel), Min(sel) - 1)
       ELSE IF last'.op = "move_down" /\ last'.ok
            THEN lp'.apps = RefSwap(lp.apps, Min(sel), Min(sel) + 1)
       ELSE /\ lp'.apps = lp.apps
            /\ last'.op = "move_up" => (sel = {} \/ Min(sel) = 0)
            /\ last'.op = "move_down" => (sel = {} \/ Min(sel) = Len(lp.apps) - 1)]_vars

\* a record was removed from a list of three that add_app had extended
C11_Witness ==
    /\ last = Done("delete_selected_app", TRUE)
    /\ Len(lp.apps) = 2
    /\ lp.apps[1].name # lp.apps[2].name
    /\ Get(lp.apps[2], "platforms", <<>>) = <<(<<"a">>)>>

\* C12: Save in the dialog with an empty or whitespace-only name gives no
\* result: the dialog stays open, the record list is unchanged, and every
\* record that add_app or edit_selected_app puts into the list has a name.
C12_Validation ==
    [][(pc = "dialog" /\ last'.op \in {"ok", "add_app", "edit_selected_app"})
        => IF Strip(dialog.name_var) = <<>>
           THEN ~last'.ok /\ lp' = lp /\ dialog' = dialog /\ pc' = "dialog"
           ELSE /\ last'.ok
                /\ \E i \in 1..Len(lp'.apps) :
                      /\ lp'.apps[i].name = Strip(dialog.name_var)
                      /\ lp'.apps[i].name # <<>>]_vars

\* Save was pressed on a whitespace-only name while editing a record
C12_Witness ==
    /\ last = Done("ok", FALSE)
    /\ pc = "dialog"
    /\ dialog.mode = "edit"
    /\ dialog.name_var = <<" ">>
    /\ lp.apps # <<>>

\* the APPS literal of the document has an element of kind k
HasElement(text, k) ==
    \E i \in 1..Len(text) :
        /\ text[i].k = "apps"
        /\ \E j \in 1..Len(text[i].items) : text[i].items[j].kind = k

\* C13: a load that returns has put a list of records into the Record List:
\* when the APPS literal does not parse or is not an array of objects, load
\* raises instead.  Stated for literals of plain data (no expression in
\* them; those are the subject of C16).
C13_MalformedLiteral ==
    (last.op = "load" /\ last.ok /\ ~HasElement(lp.html, "expr"))
        => \A i \in 1..Len(lp.apps) : lp.apps[i].kind = "object"

\* C16: a literal that contains an operator expression is rejected by the
\* decoder: the load raises and no value computed from the expression
\* reaches the Record List.
C16_RestrictedEvaluation ==
    (last.op = "load" /\ HasElement(lp.html, "expr")) => ~last.ok

\* C14: the main thread is the only activity of a session: while
\* save_changes is between its pull and the return of lp.save no step of
\* another thread is taken, and no step of another thread reads or writes
\* the document, the fields or the record list.
C14_SingleThread ==
    /\ [][pc = "saving" => anim' = anim]_vars
    /\ [][anim' # anim /\ pc # "start" => UNCHANGED <<lp, files, form>>]_vars

\* C15: what preview_changes writes to preview.html is what save_changes
\* would write to index.html from the same form and record list, and
\* preview_changes leaves index.html alone.
C15_PreviewShowsEdits ==
    [][(last'.op = "preview_changes" /\ last'.ok /\ Rewrite(Pulled(lp, form)).ok)
        => /\ files'["preview.html"].text = Rewrite(Pulled(lp, form)).html
           /\ files'["index.html"] = files["index.html"]]_vars

\* C17: a field whose marker the substitution pattern matches before a save
\* that completes still has a marker the pattern matches in the saved text.
C17_MarkersSurvive ==
    [][(last'.op \in SaveOps /\ last'.ok)
        => \A f \in MarkerFields :
              (\E i \in 1..Len(lp.html) : SavePattern(f, lp.html[i]))
                  => \E j \in 1..Len(lp'.html) : SavePattern(f, lp'.html[j])]_vars

\* save raises before it reaches write_file
RaisesBeforeWrite(l) == TemplateError(l) \/ ~CpabIt(l).ok \/ EncodeError(l.apps)

\* C18: when save raises while it builds the settings literal or in a
\* substitution, no file is written and LPData.html is what it was.
C18_FailureBeforeWrite ==
    [][(last'.op \in SaveOps /\ RaisesBeforeWrite(lp'))
        => /\ ~last'.ok
           /\ files' = files
           /\ lp'.html = lp.html
           /\ faults' = faults]_vars

\* save_changes raised on a value that starts with a digit, over a page
\* that has the marker
C18_Witness ==
    /\ last = Done("save_changes", FALSE)
    /\ TemplateError(lp)
    /\ CpabIt(lp).ok
    /\ files["index.html"] = File(lp.html)
    /\ \E i \in 1..Len(lp.html) : lp.html[i].k = "h1_title"
    /\ lp.h1_title = <<"7">>

\* C19: after a load, every element of the document is matched by the
\* extraction pattern of a field exactly when the substitution pattern of
\* that field matches it; a settings declaration, which the substitution
\* always matches, is matched by the search too (its brace directly before
\* the semicolon).
C19_SamePatterns ==
    (last.op = "load" /\ last.ok)
        => /\ \A f \in MarkerFields : \A i \in 1..Len(lp.html) :
                 LoadPattern(f, lp.html[i]) <=> SavePattern(f, lp.html[i])
           /\ \A i \in 1..Len(lp.html) : lp.html[i].k = "cpab" => lp.html[i].sp = 0
====
